---------------------------- MODULE Spec2Model ----------------------------
(***************************************************************************)
(* Model of the two AIOps lambdas:                                         *)
(*   src/lambdas/anomaly-scorer/handler.py  (numeric metric scoring)       *)
(*   src/lambdas/log-analyzer/handler.py    (log batch analysis)           *)
(*                                                                         *)
(* Real numbers are carried as fixed-point integers, rounded down:         *)
(*   anomaly_score of a metric ........ units of 1/10000                   *)
(*   z_score, percentile .............. units of 1/100                     *)
(*   baseline_std ..................... units of 1/1000                    *)
(*   anomaly_score of a log batch ..... units of 1/100                     *)
(*   error_rate ....................... units of 1/10000                   *)
(* Metric values are integers.  Wall-clock fields (timestamp, time_range)  *)
(* are left out of the result records: nothing reads them.                 *)
(* A call that can raise returns a record with a field raises; a Python     *)
(* value whose type decides the outcome of an operation carries its type.  *)
(***************************************************************************)
EXTENDS Integers, Sequences, FiniteSets, TLC

VARIABLES
    handler,            \* which lambda runs: "anomaly-scorer", "log-analyzer", or "none"
    event,              \* the invocation event
    pc,                 \* position of the handler
    metrics,            \* anomaly-scorer: the descriptors being scored
    log_groups,         \* log-analyzer: the log groups being analysed
    results,            \* the result records collected so far
    idx,                \* index of the next item of the current loop
    fetched,            \* history: the telemetry/log source's answer per item
    cw_calls,           \* history: put_metric_data calls attempted
    sns_calls,          \* history: sns.publish calls attempted
    failures,           \* history: the calls that have raised so far
    response,           \* the value the handler returns
    SNS_TOPIC_ARN,      \* environment: notification topic ("" when unset)
    ANOMALY_THRESHOLD,  \* environment: alert threshold, units of 1/10000
    LOG_GROUPS,         \* environment: log groups used when the event names none
    ENABLE_BEDROCK,     \* environment: text-insight provider switch
    arg,                \* input of the function under study (function specifications)
    locals,             \* its local variables, where a specification steps through it
    ret                 \* its output

vars == <<handler, event, pc, metrics, log_groups, results, idx, fetched, cw_calls,
          sns_calls, failures, response, SNS_TOPIC_ARN, ANOMALY_THRESHOLD, LOG_GROUPS,
          ENABLE_BEDROCK, arg, locals, ret>>

handlerVars == <<handler, event, pc, metrics, log_groups, results, idx, fetched,
                 cw_calls, sns_calls, failures, response, SNS_TOPIC_ARN, ANOMALY_THRESHOLD,
                 LOG_GROUPS, ENABLE_BEDROCK>>

---------------------------------------------------------------------------
(* Bounds of the model *)

\* longest metric series drawn for the scorer
MaxLen == 11

\* longest descriptor list in an event
MaxBatch == 2

\* most log lines beyond the pattern sample in a batch
MaxTail == 2

\* largest number of unique patterns handed to the log scoring
MaxPatterns == 12

---------------------------------------------------------------------------
(* Arithmetic helpers *)

Abs(x) == IF x < 0 THEN -x ELSE x

Min(a, b) == IF a < b THEN a ELSE b

\* sum of s[lo..hi], halving the range
RECURSIVE SumRange(_, _, _)
SumRange(s, lo, hi) ==
    IF lo > hi THEN 0
    ELSE IF lo = hi THEN s[lo]
    ELSE LET mid == (lo + hi) \div 2
         IN  SumRange(s, lo, mid) + SumRange(s, mid + 1, hi)

Sum(s) == SumRange(s, 1, Len(s))

RECURSIVE ISqrtIter(_, _, _)
ISqrtIter(x, lo, hi) ==
    IF lo >= hi THEN lo
    ELSE LET mid == (lo + hi + 1) \div 2
         IN  IF mid * mid <= x THEN ISqrtIter(x, mid, hi)
                               ELSE ISqrtIter(x, lo, mid - 1)

\* floor of the square root
ISqrt(x) == ISqrtIter(x, 0, Min(x, 46340))

Rep(x, n) == [i \in 1..n |-> x]

---------------------------------------------------------------------------
(* anomaly-scorer: AnomalyScorer *)

min_data_points == 10

\* severity table A
SeverityA(anomaly_score) ==
    IF anomaly_score >= 7000 THEN "CRITICAL"
    ELSE IF anomaly_score >= 5000 THEN "HIGH"
    ELSE IF anomaly_score >= 3000 THEN "MEDIUM"
    ELSE "LOW"

\* np.polyfit(x, values, 1)[0] with x = 0..n-1, as the fraction num/den (den > 0)
SlopeNum(values) ==
    LET n == Len(values)
    IN  n * Sum([i \in 1..n |-> (i - 1) * values[i]])
          - Sum([i \in 1..n |-> i - 1]) * Sum(values)

SlopeDen(values) ==
    LET n == Len(values)
    IN  n * Sum([i \in 1..n |-> (i - 1) * (i - 1)])
          - Sum([i \in 1..n |-> i - 1]) * Sum([i \in 1..n |-> i - 1])

\* variant: the quotient taken against the magnitude of mean + 0.001
RelativeChangeAbove_AbsMean(values) ==
    LET n == Len(values)
        d == Abs(1000 * Sum(values) + n)
    IN  IF d > 0 THEN 10000 * n * Abs(SlopeNum(values)) > SlopeDen(values) * d
        ELSE FALSE

\* relative_change = abs(slope) / (np.mean(values) + 0.001) > 0.1, decided exactly:
\* abs(slope) = |num|/den and mean + 0.001 = (1000*sum + n)/(1000*n)
RelativeChangeAbove(values) ==
    LET n == Len(values)
        d == 1000 * Sum(values) + n
    IN  IF d > 0 THEN 10000 * n * Abs(SlopeNum(values)) > SlopeDen(values) * d
        ELSE FALSE      \* a negative quotient is never > 0.1

_analyze_trend(values) ==
    IF Len(values) < 3 THEN "stable"
    ELSE IF RelativeChangeAbove(values)
         THEN (IF SlopeNum(values) > 0 THEN "increasing" ELSE "decreasing")
         ELSE "stable"

\* variant: kind='mean', (count(a < score) + count(a <= score)) * 50 / n
percentileofscore_Mean(a, score) ==
    LET left  == Cardinality({i \in 1..Len(a) : a[i] < score})
        right == Cardinality({i \in 1..Len(a) : a[i] <= score})
    IN  ((left + right) * 5000) \div Len(a)

\* scipy.stats.percentileofscore(a, score) with its default kind='rank':
\* (count(a < score) + count(a <= score) + (1 if any equal else 0)) * 50 / n
percentileofscore(a, score) ==
    LET left  == Cardinality({i \in 1..Len(a) : a[i] < score})
        right == Cardinality({i \in 1..Len(a) : a[i] <= score})
        plus1 == IF left < right THEN 1 ELSE 0
    IN  ((left + right + plus1) * 5000) \div Len(a)

split_idx(values) == (Len(values) * 8) \div 10

Baseline(values) == SubSeq(values, 1, split_idx(values))

Recent(values) == SubSeq(values, split_idx(values) + 1, Len(values))

\* sum over the baseline of (m*v - S)^2: m^3 times the population variance
DevSq(baseline) ==
    LET m == Len(baseline)
        S == Sum(baseline)
    IN  Sum([i \in 1..m |-> (m * baseline[i] - S) * (m * baseline[i] - S)])

\* np.std(baseline), zero replaced by 0.001
BaselineStd(baseline) ==
    LET m3 == Len(baseline) * Len(baseline) * Len(baseline)
        Q  == DevSq(baseline)
    IN  IF Q = 0 THEN 1
        ELSE ISqrt((Q \div m3) * 1000000 + ((Q % m3) * 1000000) \div m3)

\* abs((current_value - baseline_mean) / baseline_std); with Q > 0 the quotient is
\* sqrt(m * (m*current - S)^2 / Q), with Q = 0 it is |current - mean| / 0.001
ZScore(baseline, current_value) ==
    LET m == Len(baseline)
        d == Abs(m * current_value - Sum(baseline))
        Q == DevSq(baseline)
    IN  IF Q = 0 THEN (100000 * d) \div m
        ELSE ISqrt((10000 * m * d * d) \div Q)

\* variant: no min(..., 1.0)
z_score_normalized_Unclamped(z_score) == (z_score * 100) \div 3

z_score_normalized(z_score) == Min((z_score * 100) \div 3, 10000)

percentile_score(percentile) == (Abs(percentile - 5000) * 10000) \div 5000

trend_score(trend) == IF trend \in {"increasing", "decreasing"} THEN 3000 ELSE 0

CombineScore(z_score, percentile, trend) ==
    (z_score_normalized(z_score) * 5) \div 10
      + (percentile_score(percentile) * 3) \div 10
      + (trend_score(trend) * 2) \div 10

_calculate_score(values) ==
    IF values = <<>>
    THEN [score |-> 0, severity |-> "LOW", baseline_mean |-> 0, baseline_std |-> 0,
          z_score |-> 0, percentile |-> 5000, trend |-> "stable"]
    ELSE LET current_value == values[Len(values)]
             baseline      == Baseline(values)
             z_score       == ZScore(baseline, current_value)
             percentile    == percentileofscore(baseline, current_value)
             trend         == _analyze_trend(Recent(values))
             anomaly_score == CombineScore(z_score, percentile, trend)
         IN  [score         |-> anomaly_score,
              severity      |-> SeverityA(anomaly_score),
              baseline_mean |-> (Sum(baseline) * 100) \div Len(baseline),
              baseline_std  |-> BaselineStd(baseline),
              z_score       |-> z_score,
              percentile    |-> percentile,
              trend         |-> trend]

\* sorted(datapoints, key=lambda x: x['Timestamp']): stable insertion sort
RECURSIVE InsertByTimestamp(_, _)
InsertByTimestamp(sorted, dp) ==
    IF sorted = <<>> THEN <<dp>>
    ELSE IF sorted[Len(sorted)].Timestamp <= dp.Timestamp THEN Append(sorted, dp)
    ELSE Append(InsertByTimestamp(SubSeq(sorted, 1, Len(sorted) - 1), dp),
                sorted[Len(sorted)])

RECURSIVE SortedByTimestamp(_)
SortedByTimestamp(datapoints) ==
    IF datapoints = <<>> THEN <<>>
    ELSE InsertByTimestamp(
             SortedByTimestamp(SubSeq(datapoints, 1, Len(datapoints) - 1)),
             datapoints[Len(datapoints)])

\* metric.get('dimensions')
DimensionsOf(metric) ==
    IF "dimensions" \in DOMAIN metric THEN metric.dimensions ELSE "None"

\* the gate of score_metric: len(datapoints) < self.min_data_points
\* variant: the gate also refuses exactly min_data_points datapoints
InsufficientData_AtMost(datapoints) == Len(datapoints) <= min_data_points

InsufficientData(datapoints) == Len(datapoints) < min_data_points

\* score_metric; fetch is what get_metric_statistics does: it raises, or it
\* returns a response holding Datapoints
score_metric(metric, fetch) ==
    IF fetch.raises
    THEN [namespace   |-> metric.namespace,
          metric_name |-> metric.metric_name,
          error       |-> "get_metric_statistics failed"]
    ELSE IF InsufficientData(fetch.Datapoints)
    THEN [namespace     |-> metric.namespace,
          metric_name   |-> metric.metric_name,
          anomaly_score |-> 0,
          status        |-> "insufficient_data",
          data_points   |-> Len(fetch.Datapoints)]
    ELSE LET sorted       == SortedByTimestamp(fetch.Datapoints)
             values       == [i \in 1..Len(sorted) |-> sorted[i].Value]
             score_result == _calculate_score(values)
         IN  [namespace     |-> metric.namespace,
              metric_name   |-> metric.metric_name,
              dimensions    |-> DimensionsOf(metric),
              anomaly_score |-> score_result.score,
              severity      |-> score_result.severity,
              current_value |-> values[Len(values)],
              baseline_mean |-> score_result.baseline_mean,
              baseline_std  |-> score_result.baseline_std,
              z_score       |-> score_result.z_score,
              percentile    |-> score_result.percentile,
              trend         |-> score_result.trend,
              data_points   |-> Len(fetch.Datapoints)]

\* score_result.get('anomaly_score', 0)
ScoreOf(score_result) ==
    IF "anomaly_score" \in DOMAIN score_result THEN score_result.anomaly_score ELSE 0

\* score_result.get('severity', 'LOW')
SeverityOf(score_result) ==
    IF "severity" \in DOMAIN score_result THEN score_result.severity ELSE "LOW"

\* variant: the threshold itself does not alert
AnomalyAlertDue_Strict(score_result, topic, threshold) ==
    /\ topic # ""
    /\ ScoreOf(score_result) > threshold

\* publish_anomaly_alert reaches sns.publish
AnomalyAlertDue(score_result, topic, threshold) ==
    /\ topic # ""
    /\ ScoreOf(score_result) >= threshold

\* the metrics lambda_handler scores when the event names none
DefaultMetrics ==
    <<[namespace |-> "AWS/Lambda", metric_name |-> "Duration", statistic |-> "Average"],
      [namespace |-> "AWS/Lambda", metric_name |-> "Errors", statistic |-> "Sum"],
      [namespace   |-> "AWS/ApplicationELB",
       metric_name |-> "TargetResponseTime",
       statistic   |-> "Average"]>>

\* metrics = event.get('metrics', []); if not metrics: the defaults
MetricsOf(ev) == IF ev.metrics = <<>> THEN DefaultMetrics ELSE ev.metrics

---------------------------------------------------------------------------
(* log-analyzer: LogAnalyzer *)
(* A log message is a sequence of one-character strings.                    *)

Digits == {"0", "1", "2", "3", "4", "5", "6", "7", "8", "9"}

LowerCase == <<"a", "b", "c", "d", "e", "f", "g", "h", "i", "j", "k", "l", "m",
               "n", "o", "p", "q", "r", "s", "t", "u", "v", "w", "x", "y", "z">>

UpperCase == <<"A", "B", "C", "D", "E", "F", "G", "H", "I", "J", "K", "L", "M",
               "N", "O", "P", "Q", "R", "S", "T", "U", "V", "W", "X", "Y", "Z">>

Letters == {LowerCase[i] : i \in 1..26} \cup {UpperCase[i] : i \in 1..26}

\* case folding of re.IGNORECASE
UpperOf ==
    [c \in {LowerCase[i] : i \in 1..26} |->
        UpperCase[CHOOSE i \in 1..26 : LowerCase[i] = c]]

Fold(c) == IF c \in DOMAIN UpperOf THEN UpperOf[c] ELSE c

\* \d and \w of the regular expressions
IsDigit(c) == c \in Digits

IsWord(c) == c \in Digits \cup Letters \cup {"_"}

\* \b before position i of message (the character at i is a word character)
BoundaryBefore(message, i) == i = 1 \/ ~IsWord(message[i - 1])

\* \b after position i - 1 of message (the character at i - 1 is a word character)
BoundaryAt(message, i) == i > Len(message) \/ ~IsWord(message[i])

\* self.error_patterns, in order
error_patterns == <<
    <<"E", "R", "R", "O", "R">>,
    <<"F", "A", "T", "A", "L">>,
    <<"E", "X", "C", "E", "P", "T", "I", "O", "N">>,
    <<"C", "R", "I", "T", "I", "C", "A", "L">>,
    <<"F", "A", "I", "L", "E", "D">>,
    <<"T", "I", "M", "E", "O", "U", "T">>,
    <<"O", "U", "T", " ", "O", "F", " ", "M", "E", "M", "O", "R", "Y">>,
    <<"C", "O", "N", "N", "E", "C", "T", "I", "O", "N", " ", "R", "E",
      "F", "U", "S", "E", "D">>,
    <<"5", "0", "3">>,
    <<"5", "0", "0">>,
    <<"5", "0", "2">>,
    <<"5", "0", "4">>
>>


\* re.search(pattern, message, re.IGNORECASE) for a literal pattern
re_search(pattern, message) ==
    \E i \in 1..(Len(message) - Len(pattern) + 1) :
        \A k \in 1..Len(pattern) : Fold(message[i + k - 1]) = Fold(pattern[k])

\* the inner loop of _analyze_events: index of the pattern that wins the line, 0 if none
RECURSIVE FirstMatchFrom(_, _)
FirstMatchFrom(message, p) ==
    IF p > Len(error_patterns) THEN 0
    ELSE IF re_search(error_patterns[p], message) THEN p
    ELSE FirstMatchFrom(message, p + 1)

FirstMatch(message) == FirstMatchFrom(message, 1)

\* number of consecutive digits of message from position i on
RECURSIVE DigitRun(_, _)
DigitRun(message, i) ==
    IF i > Len(message) \/ ~IsDigit(message[i]) THEN 0
    ELSE 1 + DigitRun(message, i + 1)

\* r'\b(?:[1-5]\d{2})\b' matched at position i: the position after the match, else 0
HttpCodeAt(message, i) ==
    IF /\ i + 2 <= Len(message)
       /\ BoundaryBefore(message, i)
       /\ message[i] \in {"1", "2", "3", "4", "5"}
       /\ IsDigit(message[i + 1])
       /\ IsDigit(message[i + 2])
       /\ BoundaryAt(message, i + 3)
    THEN i + 3 ELSE 0

\* (?:\d{1,3}\.) repeated n times from position i: the position after, else 0
RECURSIVE OctetDots(_, _, _)
OctetDots(message, i, n) ==
    IF n = 0 THEN i
    ELSE LET k == DigitRun(message, i)
         IN  IF k \in 1..3 /\ i + k <= Len(message) /\ message[i + k] = "."
             THEN OctetDots(message, i + k + 1, n - 1)
             ELSE 0

\* r'\b(?:\d{1,3}\.){3}\d{1,3}\b' matched at position i: the position after, else 0
IpAddressAt(message, i) ==
    IF i <= Len(message) /\ IsDigit(message[i]) /\ BoundaryBefore(message, i)
    THEN LET j == OctetDots(message, i, 3)
             k == IF j = 0 THEN 0 ELSE DigitRun(message, j)
         IN  IF j # 0 /\ k \in 1..3 /\ BoundaryAt(message, j + k) THEN j + k ELSE 0
    ELSE 0

\* r'\d{4}-\d{2}-\d{2}[\sT]\d{2}:\d{2}:\d{2}' matched at position i, else 0
TimestampAt(message, i) ==
    IF /\ i + 18 <= Len(message)
       /\ \A k \in {0, 1, 2, 3, 5, 6, 8, 9, 11, 12, 14, 15, 17, 18} :
              IsDigit(message[i + k])
       /\ message[i + 4] = "-" /\ message[i + 7] = "-"
       /\ message[i + 10] \in {" ", "T"}
       /\ message[i + 13] = ":" /\ message[i + 16] = ":"
    THEN i + 19 ELSE 0

\* re.findall: leftmost matches, scanning on after each match
RECURSIVE FindHttpCodes(_, _)
FindHttpCodes(message, i) ==
    IF i > Len(message) THEN {}
    ELSE LET e == HttpCodeAt(message, i)
         IN  IF e = 0 THEN FindHttpCodes(message, i + 1)
             ELSE {SubSeq(message, i, e - 1)} \cup FindHttpCodes(message, e)

RECURSIVE FindIpAddresses(_, _)
FindIpAddresses(message, i) ==
    IF i > Len(message) THEN {}
    ELSE LET e == IpAddressAt(message, i)
         IN  IF e = 0 THEN FindIpAddresses(message, i + 1)
             ELSE {SubSeq(message, i, e - 1)} \cup FindIpAddresses(message, e)

RECURSIVE FindTimestamps(_, _)
FindTimestamps(message, i) ==
    IF i > Len(message) THEN {}
    ELSE LET e == TimestampAt(message, i)
         IN  IF e = 0 THEN FindTimestamps(message, i + 1)
             ELSE {SubSeq(message, i, e - 1)} \cup FindTimestamps(message, e)

\* what one message adds to the pattern set
MessagePatterns(message) ==
    FindHttpCodes(message, 1) \cup FindIpAddresses(message, 1)
        \cup FindTimestamps(message, 1)

\* a Python value whose type decides what / and len() do with it
PyInt(n) == [type |-> "int", value |-> n]

PySet(S) == [type |-> "set", value |-> S]

\* variant: no min(..., 100.0)
_calculate_anomaly_score_Unclamped(error_count, total_events, unique_patterns) ==
    IF total_events = 0 THEN [raises |-> FALSE, value |-> 0]
    ELSE IF unique_patterns.type = "set" THEN [raises |-> TRUE, error |-> "TypeError"]
    ELSE [raises |-> FALSE,
          value  |-> (error_count * 700000) \div total_events
                         + Min(unique_patterns.value, 10) * 30000]

\* _calculate_anomaly_score: it returns a value, or unique_patterns / 10 raises
\* TypeError (a set cannot be divided);
\* score = error_rate * 70 + pattern_diversity * 30, return min(score * 100, 100.0)
_calculate_anomaly_score(error_count, total_events, unique_patterns) ==
    IF total_events = 0 THEN [raises |-> FALSE, value |-> 0]
    ELSE IF unique_patterns.type = "set" THEN [raises |-> TRUE, error |-> "TypeError"]
    ELSE LET error_rate70      == (error_count * 700000) \div total_events
             pattern_diversity == Min(unique_patterns.value, 10)      \* tenths
         IN  [raises |-> FALSE,
              value  |-> Min(error_rate70 + pattern_diversity * 30000, 10000)]

\* variant: a tier needs its score and its error_count together
_determine_severity_Both(anomaly_score, error_count) ==
    IF anomaly_score >= 7000 /\ error_count > 100 THEN "CRITICAL"
    ELSE IF anomaly_score >= 4000 /\ error_count > 20 THEN "HIGH"
    ELSE IF anomaly_score >= 2000 /\ error_count > 5 THEN "MEDIUM"
    ELSE "LOW"

\* severity table B
_determine_severity(anomaly_score, error_count) ==
    IF anomaly_score >= 7000 \/ error_count > 100 THEN "CRITICAL"
    ELSE IF anomaly_score >= 4000 \/ error_count > 20 THEN "HIGH"
    ELSE IF anomaly_score >= 2000 \/ error_count > 5 THEN "MEDIUM"
    ELSE "LOW"

---------------------------------------------------------------------------
(* The log lines the model draws from *)

\* "request served"
LinePlain ==
    <<"r", "e", "q", "u", "e", "s", "t", " ", "s", "e", "r", "v", "e", "d">>

\* "ERROR 500 upstream 192.168.100.200"
LineError500 ==
    <<"E", "R", "R", "O", "R", " ", "5", "0", "0", " ", "u", "p", "s", "t",
    "r", "e", "a", "m", " ", "1", "9", "2", ".", "1", "6", "8", ".", "1", "0",
    "0", ".", "2", "0", "0">>

\* "2024-01-01T00:00:00 GET 201 202 203 204 205"
LineAccess ==
    <<"2", "0", "2", "4", "-", "0", "1", "-", "0", "1", "T", "0", "0", ":",
    "0", "0", ":", "0", "0", " ", "G", "E", "T", " ", "2", "0", "1", " ", "2",
    "0", "2", " ", "2", "0", "3", " ", "2", "0", "4", " ", "2", "0", "5">>

\* "error: connection refused"
LineLower ==
    <<"e", "r", "r", "o", "r", ":", " ", "c", "o", "n", "n", "e", "c", "t",
    "i", "o", "n", " ", "r", "e", "f", "u", "s", "e", "d">>

\* "GET /api 500 in 12ms"
LineStatus500 ==
    <<"G", "E", "T", " ", "/", "a", "p", "i", " ", "5", "0", "0", " ", "i",
    "n", " ", "1", "2", "m", "s">>

\* "FATAL timeout 2024-01-01 00:00:00 from 10.0.0.1"
LineFatal ==
    <<"F", "A", "T", "A", "L", " ", "t", "i", "m", "e", "o", "u", "t", " ",
    "2", "0", "2", "4", "-", "0", "1", "-", "0", "1", " ", "0", "0", ":", "0",
    "0", ":", "0", "0", " ", "f", "r", "o", "m", " ", "1", "0", ".", "0", ".",
    "0", ".", "1">>

\* "job 15000 done"
LineJob ==
    <<"j", "o", "b", " ", "1", "5", "0", "0", "0", " ", "d", "o", "n", "e">>


Lines == {LinePlain, LineError500, LineAccess, LineLower, LineStatus500,
          LineFatal, LineJob}

\* variant: no break, every matching pattern's bucket is incremented
LineHits_NoBreak(message) ==
    {p \in 1..Len(error_patterns) : re_search(error_patterns[p], message)}

\* the buckets a message increments: that of the first pattern matching it
\* (for pattern ...: if re.search(...): ...; break)
LineHits(message) ==
    IF FirstMatch(message) = 0 THEN {} ELSE {FirstMatch(message)}

\* LineHits and MessagePatterns, tabulated once for the lines drawn
HitsOf == [m \in Lines |-> LineHits(m)]

PatternsOf == [m \in Lines |-> MessagePatterns(m)]

\* messages[:100] of _detect_patterns
SampleLimit == 100

\* variant: messages[:101]
Sample_OffByOne(messages) == SubSeq(messages, 1, Min(Len(messages), SampleLimit + 1))

Sample(messages) == SubSeq(messages, 1, Min(Len(messages), SampleLimit))

_detect_patterns(messages) ==
    UNION {PatternsOf[Sample(messages)[i]] : i \in 1..Len(Sample(messages))}

\* the increments of the error-detection loop, one per (message, bucket)
Increments(messages) ==
    UNION {{<<i, p>> : p \in HitsOf[messages[i]]} : i \in 1..Len(messages)}

\* messages[:50] handed to _get_ai_insights
InsightLimit == 50

\* how the provider call ends: it raises, answers JSON, or answers free text
ProviderOutcomes == {"failed", "json", "text"}

\* _get_ai_insights for each outcome of the provider call
_get_ai_insights(messages, outcome) ==
    CASE outcome = "unavailable" -> [error |-> "Bedrock not available"]
      [] outcome = "failed"      -> [error |-> "invoke_model failed"]
      [] outcome = "json"        -> [root_cause |-> "opaque"]
      [] OTHER                   -> [insights |-> "opaque"]

\* _analyze_events, "# Error detection": error_count and the histogram error_types
ErrorDetection(messages) ==
    LET incs == Increments(messages)
    IN  [error_count |-> Cardinality(incs),
         error_types |-> [p \in {error_patterns[ip[2]] : ip \in incs} |->
                             Cardinality({ip \in incs : error_patterns[ip[2]] = p})]]

\* _analyze_events, "# Statistical analysis"
Statistics(messages) ==
    [message_lengths |-> [i \in 1..Len(messages) |-> Len(messages[i])],
     avg_length      |-> IF messages = <<>> THEN 0
                         ELSE (Sum([i \in 1..Len(messages) |-> Len(messages[i])]) * 100)
                                  \div Len(messages)]

\* 'error_rate': error_count / len(messages) if messages else 0
ErrorRate(error_count, total_events) ==
    IF total_events = 0 THEN 0 ELSE (error_count * 10000) \div total_events

\* the analysis dict of _analyze_events, built from its locals
Analysis(detected, unique_patterns, stats, total_events, anomaly_score) ==
    [error_count        |-> detected.error_count,
     error_rate         |-> ErrorRate(detected.error_count, total_events),
     error_types        |-> detected.error_types,
     unique_patterns    |-> Cardinality(unique_patterns.value),
     avg_message_length |-> stats.avg_length,
     anomaly_score      |-> anomaly_score,
     severity           |-> _determine_severity(anomaly_score, detected.error_count)]

\* if ENABLE_BEDROCK and error_count > 0: analysis['ai_insights'] = ...
WithInsights(analysis, messages, enable_bedrock, outcome) ==
    IF enable_bedrock /\ analysis.error_count > 0
    THEN [f \in DOMAIN analysis \cup {"ai_insights"} |->
             IF f = "ai_insights"
             THEN _get_ai_insights(SubSeq(messages, 1, Min(Len(messages), InsightLimit)),
                                   outcome)
             ELSE analysis[f]]
    ELSE analysis

\* _analyze_events from the scoring call on: the call raises, or the analysis is
\* built and returned
Scored(anomaly_score, detected, unique_patterns, stats, messages, enable_bedrock, outcome) ==
    IF anomaly_score.raises
    THEN [raises |-> TRUE, error |-> anomaly_score.error]
    ELSE [raises   |-> FALSE,
          analysis |-> WithInsights(
                           Analysis(detected, unique_patterns, stats, Len(messages),
                                    anomaly_score.value),
                           messages, enable_bedrock, outcome)]

\* _analyze_events: it returns the analysis, or the scoring call raises; the call
\* hands _calculate_anomaly_score the set _detect_patterns returned
_analyze_events(messages, enable_bedrock, outcome) ==
    Scored(_calculate_anomaly_score(ErrorDetection(messages).error_count, Len(messages),
                                    PySet(_detect_patterns(messages))),
           ErrorDetection(messages), PySet(_detect_patterns(messages)),
           Statistics(messages), messages, enable_bedrock, outcome)

\* the batches filter_log_events answers in the handler specification
AnsweredBatches ==
    {<<LineError500, LinePlain>>,
     <<LinePlain>>,
     <<LineJob>> \o Rep(LinePlain, 200)}

\* _analyze_events of those batches, tabulated once
AnalysisOf ==
    [messages \in AnsweredBatches |->
        [enable_bedrock \in BOOLEAN |->
            [outcome \in ProviderOutcomes |->
                _analyze_events(messages, enable_bedrock, outcome)]]]

\* what analyze_log_group returns once _analyze_events has ended: the error
\* record of its except clause, or the analysis with log_group and total_events
Labelled(log_group_name, total_events, analyzed) ==
    IF analyzed.raises
    THEN [log_group |-> log_group_name, error |-> analyzed.error]
    ELSE [f \in DOMAIN analyzed.analysis \cup {"log_group", "total_events"} |->
             IF f = "log_group" THEN log_group_name
             ELSE IF f = "total_events" THEN total_events
             ELSE analyzed.analysis[f]]

\* variant: a failed fetch is reported as a group without events
analyze_log_group_FailureAsEmpty(log_group_name, fetch, enable_bedrock, outcome) ==
    IF fetch.raises \/ fetch.events = <<>>
    THEN [log_group |-> log_group_name, total_events |-> 0,
          analysis |-> "No events found"]
    ELSE Labelled(log_group_name, Len(fetch.events),
                  AnalysisOf[fetch.events][enable_bedrock][outcome])

\* analyze_log_group; fetch is what filter_log_events does: it raises, or it
\* returns a response holding events (each event stands for its message); the
\* except clause also catches what _analyze_events raises
analyze_log_group(log_group_name, fetch, enable_bedrock, outcome) ==
    IF fetch.raises
    THEN [log_group |-> log_group_name, error |-> "filter_log_events failed"]
    ELSE IF fetch.events = <<>>
    THEN [log_group |-> log_group_name, total_events |-> 0,
          analysis |-> "No events found"]
    ELSE Labelled(log_group_name, Len(fetch.events),
                  AnalysisOf[fetch.events][enable_bedrock][outcome])

\* variant: every analysis alerts, whatever its severity
AlertDue_AnySeverity(analysis, topic) ==
    topic # ""

\* publish_alert reaches sns.publish
AlertDue(analysis, topic) ==
    /\ topic # ""
    /\ SeverityOf(analysis) \in {"CRITICAL", "HIGH"}

\* log_groups = event.get('log_groups', []); if not log_groups: the entries of
\* the LOG_GROUPS environment variable that are not blank
LogGroupsOf(ev, env) ==
    IF ev.log_groups = <<>> THEN SelectSeq(env, LAMBDA lg : lg # "")
    ELSE ev.log_groups

---------------------------------------------------------------------------
(* Function specification: _calculate_score over a family of series *)

\* metric values drawn
Values == {-1, 0, 1, 2, 10}

\* baselines: a run of one value followed by a run of another
Baselines(m) == {Rep(x, k) \o Rep(y, m - k) : x \in Values, y \in Values, k \in 0..m}

\* recent populations: every sequence of the right length
Recents(r) == [1..r -> Values]

SeriesOfLen(n) ==
    LET m == (n * 8) \div 10
    IN  {b \o r : b \in Baselines(m), r \in Recents(n - m)}

\* series that pass the minimum-population gate
ScoredSeries(maxlen) == UNION {SeriesOfLen(n) : n \in min_data_points..maxlen}

IdleHandler ==
    /\ handler = "none" /\ event = <<>> /\ pc = "idle"
    /\ metrics = <<>> /\ log_groups = <<>> /\ results = <<>> /\ idx = 0
    /\ fetched = <<>> /\ cw_calls = <<>> /\ sns_calls = <<>> /\ failures = {}
    /\ response = <<>>
    /\ SNS_TOPIC_ARN = "" /\ ANOMALY_THRESHOLD = 7000 /\ LOG_GROUPS = <<>>
    /\ ENABLE_BEDROCK = FALSE

InitScore ==
    /\ IdleHandler
    /\ arg \in ScoredSeries(MaxLen)
    /\ locals = <<>>
    /\ ret = <<>>

ApplyCalculateScore ==
    /\ ret = <<>>
    /\ ret' = _calculate_score(arg)
    /\ UNCHANGED <<arg, locals, handlerVars>>

NextScore == ApplyCalculateScore

SpecScore == InitScore /\ [][NextScore]_vars

---------------------------------------------------------------------------
(* The two lambda handlers, one batch invocation each *)

\* a descriptor with dimensions, beside the first default one
CustomMetric ==
    [namespace   |-> "AWS/EC2",
     metric_name |-> "CPUUtilization",
     dimensions  |-> [InstanceId |-> "i-1"],
     statistic   |-> "Maximum"]

MetricPool == {DefaultMetrics[1], CustomMetric}

LogGroupPool == {"/aws/lambda/function1", "/aws/lambda/function2"}

SeqsUpTo(S, n) == UNION {[1..k -> S] : k \in 0..n}

\* Datapoints of a response, oldest first
Datapoints(values) == [i \in 1..Len(values) |-> [Timestamp |-> i, Value |-> values[i]]]

Reverse(s) == [i \in 1..Len(s) |-> s[Len(s) + 1 - i]]

\* what get_metric_statistics does: it raises, or answers datapoints in some order
MetricFetches ==
    {[raises |-> TRUE, Datapoints |-> <<>>]}
    \cup {[raises |-> FALSE, Datapoints |-> dps] : dps \in
            {Datapoints(<<>>),
             Datapoints(Rep(10, min_data_points - 1)),
             Datapoints(Rep(10, min_data_points)),
             Datapoints(Rep(-1, min_data_points - 4) \o <<0, 0, -1, 0>>),
             Datapoints(Rep(0, min_data_points - 1) \o <<10>>),
             Reverse(Datapoints(Rep(0, min_data_points - 1) \o <<10>>)),
             Datapoints(Rep(0, MaxLen - 3) \o <<1, 2, 3>>)}}

\* what filter_log_events does: it raises, or answers events
LogFetches ==
    {[raises |-> TRUE, events |-> <<>>]}
    \cup {[raises |-> FALSE, events |-> evs] : evs \in AnsweredBatches \cup {<<>>}}

Topics == {"", "arn:aws:sns:us-east-1:1:alerts"}

Thresholds == {0, 7000}

\* the LOG_GROUPS environment variable, split at its commas
LogGroupEnvs == {<<"">>, <<"/aws/lambda/env1", "", "/aws/lambda/env2">>}

Init ==
    /\ handler \in {"anomaly-scorer", "log-analyzer"}
    /\ pc = "start"
    /\ SNS_TOPIC_ARN \in Topics
    /\ IF handler = "anomaly-scorer"
       THEN /\ event \in [metrics : SeqsUpTo(MetricPool, MaxBatch)]
            /\ ANOMALY_THRESHOLD \in Thresholds
            /\ LOG_GROUPS = <<>>
            /\ ENABLE_BEDROCK = FALSE
       ELSE /\ event \in [log_groups : SeqsUpTo(LogGroupPool, MaxBatch)]
            /\ ANOMALY_THRESHOLD = 7000
            /\ LOG_GROUPS \in LogGroupEnvs
            /\ ENABLE_BEDROCK \in BOOLEAN
    /\ metrics = <<>> /\ log_groups = <<>> /\ results = <<>> /\ idx = 0
    /\ fetched = <<>> /\ cw_calls = <<>> /\ sns_calls = <<>> /\ failures = {}
    /\ response = <<>>
    /\ arg = <<>> /\ locals = <<>> /\ ret = <<>>

envVars == <<handler, event, SNS_TOPIC_ARN, ANOMALY_THRESHOLD, LOG_GROUPS,
             ENABLE_BEDROCK, arg, locals, ret>>

(* anomaly-scorer lambda_handler *)

ScorerStart ==
    /\ handler = "anomaly-scorer" /\ pc = "start"
    /\ metrics' = MetricsOf(event)
    /\ idx' = 1
    /\ pc' = "score"
    /\ UNCHANGED <<envVars, log_groups, results, fetched, cw_calls, sns_calls, failures,
                   response>>

\* one iteration of score_multiple_metrics
ScoreMetric ==
    /\ handler = "anomaly-scorer" /\ pc = "score" /\ idx <= Len(metrics)
    /\ \E fetch \in MetricFetches :
          /\ results' = Append(results, score_metric(metrics[idx], fetch))
          /\ fetched' = Append(fetched,
                 [failed |-> fetch.raises, count |-> Len(fetch.Datapoints)])
          /\ failures' = IF fetch.raises THEN failures \cup {"get_metric_statistics"}
                         ELSE failures
    /\ idx' = idx + 1
    /\ UNCHANGED <<envVars, pc, metrics, log_groups, cw_calls, sns_calls, response>>

\* score_multiple_metrics returns; the loop over the results begins
ScoringDone ==
    /\ handler = "anomaly-scorer" /\ pc = "score" /\ idx > Len(metrics)
    /\ idx' = 1
    /\ pc' = "process"
    /\ UNCHANGED <<envVars, metrics, log_groups, results, fetched, cw_calls, sns_calls,
                   failures, response>>

\* one iteration of the loop over the results: publish_metric, publish_anomaly_alert;
\* both catch the failure of their call
ProcessResult ==
    /\ handler = "anomaly-scorer" /\ pc = "process" /\ idx <= Len(results)
    /\ \E put_raises \in BOOLEAN, publish_raises \in BOOLEAN :
          IF "error" \notin DOMAIN results[idx]
          THEN LET due == AnomalyAlertDue(results[idx], SNS_TOPIC_ARN, ANOMALY_THRESHOLD)
               IN  /\ cw_calls' = Append(cw_calls,
                          [item |-> idx, value |-> ScoreOf(results[idx])])
                   /\ sns_calls' = IF due
                                   THEN Append(sns_calls,
                                            [item     |-> idx,
                                             severity |-> SeverityOf(results[idx])])
                                   ELSE sns_calls
                   /\ failures' = failures
                          \cup (IF put_raises THEN {"put_metric_data"} ELSE {})
                          \cup (IF due /\ publish_raises THEN {"publish"} ELSE {})
          ELSE UNCHANGED <<cw_calls, sns_calls, failures>>
    /\ idx' = idx + 1
    /\ UNCHANGED <<envVars, pc, metrics, log_groups, results, fetched, response>>

ScorerReturn ==
    /\ handler = "anomaly-scorer" /\ pc = "process" /\ idx > Len(results)
    /\ response' = [statusCode |-> 200, body |-> [results |-> results]]
    /\ pc' = "done"
    /\ UNCHANGED <<envVars, metrics, log_groups, results, idx, fetched, cw_calls,
                   sns_calls, failures>>

(* log-analyzer lambda_handler *)

AnalyzerStart ==
    /\ handler = "log-analyzer" /\ pc = "start"
    /\ log_groups' = LogGroupsOf(event, LOG_GROUPS)
    /\ idx' = 1
    /\ pc' = "analyze"
    /\ UNCHANGED <<envVars, metrics, results, fetched, cw_calls, sns_calls, failures,
                   response>>

\* the rest of an iteration once analyze_log_group has returned: publish_alert
\* unless the analysis is an error record, then put_metric_data
RecordAnalysis(analysis, due, fetch, outcome, put_raises, publish_raises) ==
    /\ results' = Append(results, analysis)
    /\ fetched' = Append(fetched, [failed |-> fetch.raises, count |-> Len(fetch.events)])
    /\ sns_calls' = IF due
                    THEN Append(sns_calls, [item |-> idx, severity |-> SeverityOf(analysis)])
                    ELSE sns_calls
    /\ cw_calls' = Append(cw_calls, [item |-> idx, value |-> ScoreOf(analysis)])
    /\ failures' = failures
           \cup (IF fetch.raises THEN {"filter_log_events"} ELSE {})
           \cup (IF "ai_insights" \in DOMAIN analysis /\ outcome = "failed"
                 THEN {"invoke_model"} ELSE {})
           \cup (IF due /\ publish_raises THEN {"publish"} ELSE {})
           \cup (IF put_raises THEN {"put_metric_data"} ELSE {})

\* whether the iteration reaches sns.publish
PublishAlertDue(analysis, topic) ==
    "error" \notin DOMAIN analysis /\ AlertDue(analysis, topic)

\* one iteration of the loop over the log groups: analyze_log_group, publish_alert,
\* put_metric_data; the failure of either call is caught
AnalyzeLogGroup ==
    /\ handler = "log-analyzer" /\ pc = "analyze" /\ idx <= Len(log_groups)
    /\ \E fetch \in LogFetches, outcome \in ProviderOutcomes,
          put_raises \in BOOLEAN, publish_raises \in BOOLEAN :
          RecordAnalysis(
              analyze_log_group(log_groups[idx], fetch, ENABLE_BEDROCK, outcome),
              PublishAlertDue(
                  analyze_log_group(log_groups[idx], fetch, ENABLE_BEDROCK, outcome),
                  SNS_TOPIC_ARN),
              fetch, outcome, put_raises, publish_raises)
    /\ idx' = idx + 1
    /\ UNCHANGED <<envVars, pc, metrics, log_groups, response>>

AnalyzerReturn ==
    /\ handler = "log-analyzer" /\ pc = "analyze" /\ idx > Len(log_groups)
    /\ response' = [statusCode |-> 200, body |-> [results |-> results]]
    /\ pc' = "done"
    /\ UNCHANGED <<envVars, metrics, log_groups, results, idx, fetched, cw_calls,
                   sns_calls, failures>>

Next ==
    \/ ScorerStart \/ ScoreMetric \/ ScoringDone \/ ProcessResult \/ ScorerReturn
    \/ AnalyzerStart \/ AnalyzeLogGroup \/ AnalyzerReturn

Spec == Init /\ [][Next]_vars

---------------------------------------------------------------------------
(* Specification of the alert rule: the handler runs, and beside them          *)
(* publish_anomaly_alert and publish_alert called on their own                *)

\* score results as score_metric returns them, scores around the thresholds
ScoreResultsDrawn ==
    {[namespace |-> "AWS/Lambda", metric_name |-> "Duration", anomaly_score |-> 0,
      status |-> "insufficient_data", data_points |-> 0]}
    \cup {[namespace |-> "AWS/Lambda", metric_name |-> "Duration", anomaly_score |-> s,
           severity |-> SeverityA(s)] : s \in {0, 1, 6999, 7000, 7001, 8600}}

\* analyses as analyze_log_group returns them: a group without events, and an
\* analysis of each severity
AnalysesDrawn ==
    {[log_group |-> "/aws/lambda/function1", total_events |-> 0,
      analysis |-> "No events found"]}
    \cup {[log_group |-> "/aws/lambda/function1", total_events |-> 1,
           severity |-> s] : s \in {"LOW", "MEDIUM", "HIGH", "CRITICAL"}}

InitPublish ==
    /\ handler = "none" /\ event = <<>> /\ pc = "call"
    /\ metrics = <<>> /\ log_groups = <<>> /\ results = <<>> /\ idx = 0
    /\ fetched = <<>> /\ cw_calls = <<>> /\ sns_calls = <<>> /\ failures = {}
    /\ response = <<>>
    /\ SNS_TOPIC_ARN \in Topics /\ LOG_GROUPS = <<>> /\ ENABLE_BEDROCK = FALSE
    /\ \/ /\ arg \in [fn : {"publish_anomaly_alert"}, record : ScoreResultsDrawn]
          /\ ANOMALY_THRESHOLD \in Thresholds
       \/ /\ arg \in [fn : {"publish_alert"}, record : AnalysesDrawn]
          /\ ANOMALY_THRESHOLD = 7000
    /\ locals = <<>> /\ ret = <<>>

\* the call of sns.publish, when the function reaches it; its failure is caught
Publish(due, severity) ==
    /\ sns_calls' = IF due THEN Append(sns_calls, [item |-> 0, severity |-> severity])
                    ELSE sns_calls
    /\ \E publish_raises \in BOOLEAN :
          failures' = IF due /\ publish_raises THEN failures \cup {"publish"} ELSE failures

CallPublishAnomalyAlert ==
    /\ handler = "none" /\ pc = "call" /\ arg.fn = "publish_anomaly_alert"
    /\ Publish(AnomalyAlertDue(arg.record, SNS_TOPIC_ARN, ANOMALY_THRESHOLD),
               SeverityOf(arg.record))
    /\ pc' = "returned"
    /\ UNCHANGED <<envVars, metrics, log_groups, results, idx, fetched, cw_calls,
                   response>>

CallPublishAlert ==
    /\ handler = "none" /\ pc = "call" /\ arg.fn = "publish_alert"
    /\ Publish(AlertDue(arg.record, SNS_TOPIC_ARN), SeverityOf(arg.record))
    /\ pc' = "returned"
    /\ UNCHANGED <<envVars, metrics, log_groups, results, idx, fetched, cw_calls,
                   response>>

InitAlerts == Init \/ InitPublish

NextAlerts == Next \/ CallPublishAnomalyAlert \/ CallPublishAlert

SpecAlerts == InitAlerts /\ [][NextAlerts]_vars

---------------------------------------------------------------------------
(* Function specification: _analyze_events over a family of batches, one step *)
(* per part of its body; locals holds its local variables                    *)

\* how many copies of a first and of a second line open a batch
HeadMixes == {<<1, 0>>, <<1, 1>>, <<30, 70>>, <<1, 99>>}

Heads(mixes) ==
    {Rep(x, mix[1]) \o Rep(y, mix[2]) : x \in Lines, y \in Lines, mix \in mixes}

\* a head followed by up to MaxTail copies of a third line
Batches(maxtail) ==
    {h \o Rep(t, k) : h \in Heads(HeadMixes), t \in Lines, k \in 0..maxtail}

\* the record r with the fields of s added
Extend(r, s) == [f \in DOMAIN r \cup DOMAIN s |-> IF f \in DOMAIN s THEN s[f] ELSE r[f]]

InitLogs ==
    /\ IdleHandler
    /\ arg \in [messages : Batches(MaxTail), enable_bedrock : BOOLEAN]
    /\ locals = <<>>
    /\ ret = <<>>

\* for message in messages: for pattern in self.error_patterns: ...
RunErrorDetection ==
    /\ locals = <<>>
    /\ locals' = ErrorDetection(arg.messages)
    /\ UNCHANGED <<arg, ret, handlerVars>>

\* unique_patterns = self._detect_patterns(messages)
RunPatternDetection ==
    /\ DOMAIN locals = {"error_count", "error_types"}
    /\ locals' = Extend(locals, [unique_patterns |-> _detect_patterns(arg.messages)])
    /\ UNCHANGED <<arg, ret, handlerVars>>

\* message_lengths, avg_length
RunStatistics ==
    /\ "unique_patterns" \in DOMAIN locals /\ "avg_length" \notin DOMAIN locals
    /\ locals' = Extend(locals, Statistics(arg.messages))
    /\ UNCHANGED <<arg, ret, handlerVars>>

\* the scoring call, the analysis dict, the insights, the return
RunScoring ==
    /\ "avg_length" \in DOMAIN locals /\ ret = <<>>
    /\ \E outcome \in ProviderOutcomes :
           ret' = _analyze_events(arg.messages, arg.enable_bedrock, outcome)
    /\ UNCHANGED <<arg, locals, handlerVars>>

NextLogs == RunErrorDetection \/ RunPatternDetection \/ RunStatistics \/ RunScoring

SpecLogs == InitLogs /\ [][NextLogs]_vars

---------------------------------------------------------------------------
(* Function specification: the scoring calls of _analyze_events on their own, *)
(* _calculate_anomaly_score, the error_rate entry and _determine_severity     *)

TotalsDrawn == {0, 1, 2, 3, 10, 100, 1000}

ErrorCountsDrawn == {0, 1, 2, 3, 5, 6, 10, 20, 21, 30, 100, 101, 1000}

\* unique_patterns as the number the signature declares, or as the set the caller holds
PatternArgs(maxpatterns) ==
    {PyInt(k) : k \in 0..maxpatterns}
        \cup {PySet({}), PySet(_detect_patterns(<<LineError500>>))}

InitLogScore ==
    /\ IdleHandler
    /\ arg \in {[error_count |-> e, total_events |-> t, unique_patterns |-> u] :
                    t \in TotalsDrawn, e \in ErrorCountsDrawn,
                    u \in PatternArgs(MaxPatterns)}
    /\ arg.error_count <= arg.total_events
    /\ locals = <<>>
    /\ ret = <<>>

ApplyLogScore ==
    /\ ret = <<>>
    /\ ret' = LET anomaly_score == _calculate_anomaly_score(
                      arg.error_count, arg.total_events, arg.unique_patterns)
              IN  IF anomaly_score.raises
                  THEN [raises |-> TRUE, error |-> anomaly_score.error]
                  ELSE [raises        |-> FALSE,
                        error_rate    |-> ErrorRate(arg.error_count, arg.total_events),
                        anomaly_score |-> anomaly_score.value,
                        severity      |-> _determine_severity(anomaly_score.value,
                                                              arg.error_count)]
    /\ UNCHANGED <<arg, locals, handlerVars>>

NextLogScore == ApplyLogScore

SpecLogScore == InitLogScore /\ [][NextLogScore]_vars

---------------------------------------------------------------------------
(* Function specification: the two severity tables on pairs of inputs *)

\* metric scores around the thresholds of table A, and across its range
ScoresA == {k * 500 : k \in 0..17} \cup {2999, 3001, 4999, 5001, 6999, 7001, 8600}

\* log scores and error counts around the thresholds of table B
ScoresB == {0, 1999, 2000, 3999, 4000, 6999, 7000, 10000}

CountsB == {0, 5, 6, 20, 21, 100, 101}

InitSeverity ==
    /\ IdleHandler
    /\ \/ arg \in [table : {"A"}, score1 : ScoresA, score2 : ScoresA]
       \/ arg \in [table : {"B"}, score1 : ScoresB, count1 : CountsB,
                   score2 : ScoresB, count2 : CountsB]
    /\ locals = <<>>
    /\ ret = <<>>

ApplySeverityA ==
    /\ ret = <<>> /\ arg.table = "A"
    /\ ret' = <<SeverityA(arg.score1), SeverityA(arg.score2)>>
    /\ UNCHANGED <<arg, locals, handlerVars>>

ApplySeverityB ==
    /\ ret = <<>> /\ arg.table = "B"
    /\ ret' = <<_determine_severity(arg.score1, arg.count1),
                _determine_severity(arg.score2, arg.count2)>>
    /\ UNCHANGED <<arg, locals, handlerVars>>

NextSeverity == ApplySeverityA \/ ApplySeverityB

SpecSeverity == InitSeverity /\ [][NextSeverity]_vars

---------------------------------------------------------------------------
(* Function specification: _analyze_trend on short sequences of values *)

MaxTrendLen == 4

\* values on both sides of zero, and a high plateau where a unit slope is small
\* against the mean
TrendValues == {-3, -2, -1, 0, 1, 2, 20, 21, 22}

TrendSeqs(maxlen) == UNION {[1..n -> TrendValues] : n \in 0..maxlen}

InitTrend ==
    /\ IdleHandler
    /\ arg \in TrendSeqs(MaxTrendLen)
    /\ locals = <<>>
    /\ ret = <<>>

ApplyAnalyzeTrend ==
    /\ ret = <<>>
    /\ ret' = [trend |-> _analyze_trend(arg)]
    /\ UNCHANGED <<arg, locals, handlerVars>>

NextTrend == ApplyAnalyzeTrend

SpecTrend == InitTrend /\ [][NextTrend]_vars

---------------------------------------------------------------------------
(* Claims *)

\* the list of descriptors the running handler works through
Descriptors == IF handler = "anomaly-scorer" THEN metrics ELSE log_groups

\* the record names the descriptor it was made for
ResultIsFor(result, d) ==
    IF handler = "anomaly-scorer"
    THEN result.namespace = d.namespace /\ result.metric_name = d.metric_name
    ELSE result.log_group = d

\* C1: whatever the collaborators do (fetch, metric publish, alert publish raising
\* or not), either handler runs to its return; it returns statusCode 200 and one
\* record per descriptor, in the order of the descriptors (the event's list, or the
\* default metrics / the environment's log groups when the event names none); the
\* record of a descriptor whose fetch raised has an 'error' field, and the
\* descriptors after it are fetched and recorded all the same.
C1_BatchReturnsOneRecordPerDescriptor ==
    /\ pc # "done" => ENABLED Next
    /\ pc # "start" =>
          /\ handler = "anomaly-scorer" /\ event.metrics # <<>>
                => metrics = event.metrics
          /\ handler = "log-analyzer" /\ event.log_groups # <<>>
                => log_groups = event.log_groups
          /\ Len(results) <= Len(Descriptors)
    /\ pc = "done" =>
          /\ response.statusCode = 200
          /\ Len(response.body.results) = Len(Descriptors)
          /\ Len(fetched) = Len(Descriptors)
          /\ \A i \in 1..Len(Descriptors) :
                /\ ResultIsFor(response.body.results[i], Descriptors[i])
                /\ fetched[i].failed => "error" \in DOMAIN response.body.results[i]

\* C1 witness: a finished anomaly-scorer run in which the first fetch raised, the
\* second descriptor was scored all the same, and a metric publish and an alert
\* publish raised too
C1_Witness ==
    /\ pc = "done" /\ handler = "anomaly-scorer"
    /\ Len(results) >= 2
    /\ fetched[1].failed /\ "error" \in DOMAIN results[1]
    /\ ~fetched[2].failed /\ "severity" \in DOMAIN results[2]
    /\ {"get_metric_statistics", "put_metric_data", "publish"} \subseteq failures

\* the fields only a full computation writes
ScoredFields == {"severity", "z_score", "percentile", "trend"}

\* C3: score_metric gates on min_data_points: a fetch answering fewer datapoints
\* gives status 'insufficient_data' with anomaly_score 0.0 and none of the fields
\* _calculate_score fills; a fetch answering min_data_points or more gives a full
\* computation without that status.
C3_GateAtMinDataPoints ==
    handler = "anomaly-scorer" =>
        \A i \in 1..Len(results) :
            ~fetched[i].failed =>
                IF fetched[i].count < min_data_points
                THEN /\ "status" \in DOMAIN results[i]
                     /\ results[i].status = "insufficient_data"
                     /\ results[i].anomaly_score = 0
                     /\ ScoredFields \cap DOMAIN results[i] = {}
                ELSE /\ "status" \notin DOMAIN results[i]
                     /\ ScoredFields \subseteq DOMAIN results[i]

\* C3 witness: one fetch answered min_data_points - 1 datapoints and was gated,
\* another answered exactly min_data_points and was scored
C3_Witness ==
    /\ handler = "anomaly-scorer"
    /\ \E i \in 1..Len(results), j \in 1..Len(results) :
          /\ ~fetched[i].failed /\ fetched[i].count = min_data_points - 1
          /\ "status" \in DOMAIN results[i]
          /\ ~fetched[j].failed /\ fetched[j].count = min_data_points
          /\ "severity" \in DOMAIN results[j]

\* the items whose results the handler has gone through
Processed ==
    IF handler = "anomaly-scorer"
    THEN (IF pc = "process" THEN 1..(idx - 1) ELSE IF pc = "done" THEN 1..Len(results)
          ELSE {})
    ELSE 1..Len(results)

AlertsFor(i) == {k \in 1..Len(sns_calls) : sns_calls[k].item = i}

\* C8: with a topic configured, sns.publish is called for a metric result exactly
\* when its anomaly_score is at or above the threshold, and for a log analysis
\* exactly when its severity is HIGH or CRITICAL; with no topic it is never
\* called.  This holds of each result a handler run has gone through, and of
\* publish_anomaly_alert and publish_alert called on a record of their own.
C8_AlertRule ==
    /\ handler # "none" =>
          \A i \in 1..Len(results) :
              /\ AlertsFor(i) # {} => i \in Processed
              /\ i \in Processed =>
                    (AlertsFor(i) # {} <=>
                        /\ SNS_TOPIC_ARN # ""
                        /\ "error" \notin DOMAIN results[i]
                        /\ IF handler = "anomaly-scorer"
                           THEN /\ "anomaly_score" \in DOMAIN results[i]
                                /\ results[i].anomaly_score >= ANOMALY_THRESHOLD
                           ELSE /\ "severity" \in DOMAIN results[i]
                                /\ results[i].severity \in {"HIGH", "CRITICAL"})
    /\ handler = "none" /\ pc = "returned" =>
          (sns_calls # <<>> <=>
              /\ SNS_TOPIC_ARN # ""
              /\ IF arg.fn = "publish_anomaly_alert"
                 THEN arg.record.anomaly_score >= ANOMALY_THRESHOLD
                 ELSE /\ "severity" \in DOMAIN arg.record
                      /\ arg.record.severity \in {"HIGH", "CRITICAL"})

\* C8 witness: a finished metric run at the default threshold with a topic, one
\* result at or above the threshold alerted, one scored result below it not alerted
C8_Witness ==
    /\ pc = "done" /\ handler = "anomaly-scorer"
    /\ SNS_TOPIC_ARN # "" /\ ANOMALY_THRESHOLD = 7000
    /\ \E i \in 1..Len(results), j \in 1..Len(results) :
          /\ "severity" \in DOMAIN results[i] /\ results[i].anomaly_score >= 7000
          /\ AlertsFor(i) # {}
          /\ "severity" \in DOMAIN results[j] /\ results[j].anomaly_score < 7000
          /\ AlertsFor(j) = {}

\* the percentile term and the trend term of a score, from the returned fields
PercentileTerm(result) == (Abs(result.percentile - 5000) * 3) \div 5

TrendTerm(result) == IF result.trend = "stable" THEN 0 ELSE 600

\* C4: the score _calculate_score returns lies in [0, 0.86]; of it the percentile
\* term is at most 0.3, the trend term at most 0.06, and what remains, the z-score
\* term, lies in [0, 0.5].
C4_ScoreWithinWeights ==
    ret # <<>> =>
        /\ 0 <= ret.score /\ ret.score <= 8600
        /\ 0 <= PercentileTerm(ret) /\ PercentileTerm(ret) <= 3000
        /\ TrendTerm(ret) <= 600
        /\ 0 <= ret.score - PercentileTerm(ret) - TrendTerm(ret)
        /\ ret.score - PercentileTerm(ret) - TrendTerm(ret) <= 5000

\* C4 witness: a series scored at the maximum, each term at its bound
C4_Witness ==
    /\ ret # <<>>
    /\ ret.score = 8600
    /\ ret.z_score > 300 /\ PercentileTerm(ret) = 3000 /\ TrendTerm(ret) = 600

\* how many baseline values lie below, and how many equal, the current value
BelowCurrent(values) ==
    Cardinality({i \in 1..Len(Baseline(values)) : values[i] < values[Len(values)]})

EqualCurrent(values) ==
    Cardinality({i \in 1..Len(Baseline(values)) : values[i] = values[Len(values)]})

\* the series of the example: a baseline of eight 10s and a flat recent population
FlatTens(values) == values = Rep(10, Len(values)) /\ Len(Baseline(values)) = 8

\* C9 as the specification states it: percentile = (below + half of equal) * 100 /
\* size, and the flat series of 10s gives z_score 0, percentile 50, trend 'stable',
\* score 0.0, severity LOW.
C9_MeanPercentile ==
    ret # <<>> =>
        /\ ret.percentile = ((2 * BelowCurrent(arg) + EqualCurrent(arg)) * 5000)
                                \div Len(Baseline(arg))
        /\ FlatTens(arg) =>
              /\ ret.z_score = 0 /\ ret.percentile = 5000 /\ ret.trend = "stable"
              /\ ret.score = 0 /\ ret.severity = "LOW"

\* C9 as the code has it: percentile = (below + half of equal) * 100 / size, plus
\* 50 / size when some baseline value equals the current value; the flat series
\* of 10s gives std 0.001, z_score 0, percentile 56.25, trend 'stable',
\* score 0.0375, severity LOW.
C9_RankPercentile ==
    ret # <<>> =>
        /\ ret.percentile =
              ((2 * BelowCurrent(arg) + EqualCurrent(arg)
                   + (IF EqualCurrent(arg) > 0 THEN 1 ELSE 0)) * 5000)
                  \div Len(Baseline(arg))
        /\ FlatTens(arg) =>
              /\ ret.baseline_std = 1
              /\ ret.z_score = 0 /\ ret.percentile = 5625 /\ ret.trend = "stable"
              /\ ret.score = 375 /\ ret.severity = "LOW"

\* C9 witness: the flat series of ten 10s has been scored
C9_Witness == ret # <<>> /\ arg = Rep(10, 10) /\ ret.percentile = 5625

\* C2: for every non-empty batch the analysis carries anomaly_score =
\* min((error_rate * 0.7 + pattern_diversity * 0.3) * 100, 100.0) with
\* pattern_diversity = min(unique patterns / 10, 1.0); 30 error lines out of 100
\* with 12 unique patterns give anomaly_score 51.0 and severity HIGH.
C2_WeightedLogScore ==
    ret # <<>> /\ arg.messages # <<>> =>
        /\ ~ret.raises
        /\ ret.analysis.anomaly_score =
              Min((7000 * locals.error_count) \div Len(arg.messages)
                      + 300 * Min(Cardinality(locals.unique_patterns), 10),
                  10000)
        /\ (/\ locals.error_count = 30 /\ Len(arg.messages) = 100
            /\ Cardinality(locals.unique_patterns) = 12)
               => ret.analysis.anomaly_score = 5100 /\ ret.analysis.severity = "HIGH"

\* C5: whenever _calculate_anomaly_score returns, its value lies in [0, 100], and
\* the error_rate entry computed from the same counts lies in [0, 1].
C5_LogScoreRange ==
    ret # <<>> /\ ~ret.raises =>
        /\ 0 <= ret.anomaly_score /\ ret.anomaly_score <= 10000
        /\ 0 <= ret.error_rate /\ ret.error_rate <= 10000

\* C5 witness: 30 errors in 100 lines with 12 unique patterns, where the weighted
\* sum times 100 is far above 100 and the value returned is 100.0
C5_Witness ==
    /\ ret # <<>> /\ ~ret.raises
    /\ arg.error_count = 30 /\ arg.total_events = 100
    /\ arg.unique_patterns = PyInt(12)
    /\ ret.anomaly_score = 10000 /\ ret.error_rate = 3000

\* the position in error_patterns of the earliest pattern found in a line, 0 when
\* none is found
EarliestMatch ==
    [m \in Lines |->
        IF \E p \in 1..Len(error_patterns) : re_search(error_patterns[p], m)
        THEN CHOOSE p \in 1..Len(error_patterns) :
                 /\ re_search(error_patterns[p], m)
                 /\ \A q \in 1..(p - 1) : ~re_search(error_patterns[q], m)
        ELSE 0]

\* the count the histogram holds for the p-th pattern
Bucket(p) ==
    IF error_patterns[p] \in DOMAIN locals.error_types
    THEN locals.error_types[error_patterns[p]]
    ELSE 0

\* C6: after the error-detection loop the bucket of each pattern counts the lines
\* whose earliest matching pattern it is, so a line adds to one bucket at most;
\* error_count is the number of lines matching any pattern, equals the sum of the
\* buckets and is at most the number of lines.
C6_FirstMatchWins ==
    "error_count" \in DOMAIN locals =>
        /\ \A p \in 1..Len(error_patterns) :
              Bucket(p) = Cardinality({i \in 1..Len(arg.messages) :
                                          EarliestMatch[arg.messages[i]] = p})
        /\ \A p \in DOMAIN locals.error_types :
              locals.error_types[p] > 0
                  /\ \E q \in 1..Len(error_patterns) : error_patterns[q] = p
        /\ locals.error_count = Cardinality({i \in 1..Len(arg.messages) :
                                                EarliestMatch[arg.messages[i]] # 0})
        /\ locals.error_count = Sum([p \in 1..Len(error_patterns) |-> Bucket(p)])
        /\ locals.error_count <= Len(arg.messages)

\* C6 witness: a batch of one line holding both ERROR and 500 has gone through the
\* loop; error_count is 1 and the histogram holds the ERROR bucket alone
C6_Witness ==
    /\ "error_count" \in DOMAIN locals
    /\ arg.messages = <<LineError500>>
    /\ re_search(error_patterns[1], LineError500)
    /\ re_search(error_patterns[10], LineError500)
    /\ locals.error_count = 1
    /\ DOMAIN locals.error_types = {error_patterns[1]}

\* C10: the set _detect_patterns returns is that of any batch with the same first
\* 100 lines, whatever follows them; the lines beyond the 100th are counted in
\* error_count and in the number of lines all the same.
C10_PatternsFromFirstHundred ==
    /\ "unique_patterns" \in DOMAIN locals /\ Len(arg.messages) >= 100 =>
          /\ \A t \in Lines, k \in 0..MaxTail :
                _detect_patterns(SubSeq(arg.messages, 1, 100) \o Rep(t, k))
                    = locals.unique_patterns
          /\ locals.error_count = Cardinality({i \in 1..Len(arg.messages) :
                                                  EarliestMatch[arg.messages[i]] # 0})
    /\ "message_lengths" \in DOMAIN locals =>
          Len(locals.message_lengths) = Len(arg.messages)

\* C10 witness: the 101st line matches an error pattern and holds structural
\* patterns the first 100 lines do not; it is counted, its patterns are not
C10_Witness ==
    /\ "message_lengths" \in DOMAIN locals
    /\ Len(arg.messages) > 100
    /\ EarliestMatch[arg.messages[101]] # 0
    /\ PatternsOf[arg.messages[101]] # {}
    /\ PatternsOf[arg.messages[101]] \cap locals.unique_patterns = {}
    /\ EarliestMatch[arg.messages[1]] = 0
    /\ locals.error_count >= 1
    /\ Len(locals.message_lengths) > 100

\* LOW < MEDIUM < HIGH < CRITICAL
Rank(severity) ==
    CASE severity = "LOW"      -> 0
      [] severity = "MEDIUM"   -> 1
      [] severity = "HIGH"     -> 2
      [] severity = "CRITICAL" -> 3

\* the tier the log score triggers (>= 70, >= 40, >= 20)
ScoreTierB(score) ==
    IF score >= 7000 THEN 3 ELSE IF score >= 4000 THEN 2 ELSE IF score >= 2000 THEN 1 ELSE 0

\* the tier error_count triggers (> 100, > 20, > 5)
CountTierB(count) ==
    IF count > 100 THEN 3 ELSE IF count > 20 THEN 2 ELSE IF count > 5 THEN 1 ELSE 0

\* C7: both severity tables are monotonic under LOW < MEDIUM < HIGH < CRITICAL:
\* table A in the score, table B in score and error_count together; and the tier
\* of table B is the higher of the tier its score triggers and the tier its
\* error_count triggers.
C7_SeverityMonotonic ==
    ret # <<>> =>
        IF arg.table = "A"
        THEN arg.score1 <= arg.score2 => Rank(ret[1]) <= Rank(ret[2])
        ELSE /\ arg.score1 <= arg.score2 /\ arg.count1 <= arg.count2
                    => Rank(ret[1]) <= Rank(ret[2])
             /\ Rank(ret[1]) = IF ScoreTierB(arg.score1) >= CountTierB(arg.count1)
                               THEN ScoreTierB(arg.score1) ELSE CountTierB(arg.count1)
             /\ Rank(ret[2]) = IF ScoreTierB(arg.score2) >= CountTierB(arg.count2)
                               THEN ScoreTierB(arg.score2) ELSE CountTierB(arg.count2)

\* C7 witness: table B on a pair in order, the first graded HIGH by its error_count
\* alone, the second CRITICAL by its score alone
C7_Witness ==
    /\ ret # <<>> /\ arg.table = "B"
    /\ arg.score1 < arg.score2 /\ arg.count1 <= arg.count2
    /\ ScoreTierB(arg.score1) = 0 /\ CountTierB(arg.count1) = 2 /\ ret[1] = "HIGH"
    /\ ScoreTierB(arg.score2) = 3 /\ CountTierB(arg.count2) = 2 /\ ret[2] = "CRITICAL"


StrictlyIncreasing(values) == \A i \in 1..(Len(values) - 1) : values[i] < values[i + 1]

StrictlyDecreasing(values) == \A i \in 1..(Len(values) - 1) : values[i] > values[i + 1]

Flat(values) == \A i, j \in 1..Len(values) : values[i] = values[j]

\* slope (signed by sign: 1 for the slope, -1 for its negation) > 0.1 * mean, with
\* slope = SlopeNum/SlopeDen and mean = sum/n
AboveTenthOfMean(values, sign) ==
    10 * Len(values) * sign * SlopeNum(values) > SlopeDen(values) * Sum(values)

\* 1000 * n * (mean + 0.001), the sign of the divisor of relative_change
ShiftedMeanSign(values) == 1000 * Sum(values) + Len(values)

\* slope (signed by sign) > 0.1 * (mean + 0.001)
AboveTenthOfShiftedMean(values, sign) ==
    10000 * Len(values) * sign * SlopeNum(values) > SlopeDen(values) * ShiftedMeanSign(values)

\* C11 as stated: _analyze_trend returns 'stable' for every sequence of fewer than
\* 3 values and for every flat sequence, 'increasing' for every strictly increasing
\* sequence of at least 3 values whose least-squares slope exceeds 0.1 of the mean
\* of the values, and 'decreasing' for every strictly decreasing one whose negated
\* slope does, whatever the sign of the mean.
C11_TrendBySlopeOverMean ==
    ret # <<>> =>
        /\ Len(arg) < 3 => ret.trend = "stable"
        /\ Flat(arg) => ret.trend = "stable"
        /\ Len(arg) >= 3 /\ StrictlyIncreasing(arg) /\ AboveTenthOfMean(arg, 1)
              => ret.trend = "increasing"
        /\ Len(arg) >= 3 /\ StrictlyDecreasing(arg) /\ AboveTenthOfMean(arg, -1)
              => ret.trend = "decreasing"

\* C11 amended: _analyze_trend returns 'stable' for every sequence of fewer than 3
\* values and for every flat sequence; for a strictly increasing (decreasing)
\* sequence of at least 3 values with mean + 0.001 > 0 it returns 'increasing'
\* ('decreasing') when the magnitude of the slope exceeds 0.1 * (mean + 0.001),
\* which covers a mean of zero; and for every sequence of at least 3 values with
\* mean + 0.001 < 0 it returns 'stable', however steep the slope.
C11_TrendBySlopeOverShiftedMean ==
    ret # <<>> =>
        /\ Len(arg) < 3 => ret.trend = "stable"
        /\ Flat(arg) => ret.trend = "stable"
        /\ (/\ Len(arg) >= 3 /\ StrictlyIncreasing(arg)
            /\ ShiftedMeanSign(arg) > 0 /\ AboveTenthOfShiftedMean(arg, 1))
              => ret.trend = "increasing"
        /\ (/\ Len(arg) >= 3 /\ StrictlyDecreasing(arg)
            /\ ShiftedMeanSign(arg) > 0 /\ AboveTenthOfShiftedMean(arg, -1))
              => ret.trend = "decreasing"
        /\ Len(arg) >= 3 /\ ShiftedMeanSign(arg) < 0 => ret.trend = "stable"

\* C11 witness: a strictly increasing sequence of 3 values with mean zero is
\* graded 'increasing'
C11_Witness ==
    /\ ret # <<>> /\ Len(arg) = 3 /\ StrictlyIncreasing(arg)
    /\ Sum(arg) = 0 /\ AboveTenthOfShiftedMean(arg, 1)
    /\ ret.trend = "increasing"


\* the fields the insight provider must leave as they are
AnalysisFields ==
    {"error_count", "error_rate", "error_types", "unique_patterns", "anomaly_score",
     "severity"}

\* _analyze_events has ended by returning an analysis that carries the insight field
InsightsAttached == ~ret.raises /\ "ai_insights" \in DOMAIN ret.analysis

\* the same batch analysed with the provider disabled returns, and with the same
\* values under AnalysisFields
SameAsDisabled(disabled) ==
    /\ ~disabled.raises
    /\ \A f \in AnalysisFields : ret.analysis[f] = disabled.analysis[f]

\* C12: once _analyze_events has ended, it has returned an analysis that carries
\* the provider's answer under 'ai_insights' if and only if the provider is enabled
\* and error_count > 0; and when the answer is the error marker of a failed
\* provider call, error_count, error_rate, error_types, unique_patterns,
\* anomaly_score and severity are those of the same batch analysed with the
\* provider disabled.
C12_InsightsIffEnabledAndErrors ==
    ret # <<>> =>
        /\ InsightsAttached <=> (arg.enable_bedrock /\ locals.error_count > 0)
        /\ (InsightsAttached /\ "error" \in DOMAIN ret.analysis.ai_insights)
              => SameAsDisabled(_analyze_events(arg.messages, FALSE, "failed"))


\* the item was scored in full: its record has a score and a severity, and is
\* neither an error record, nor an insufficient_data record, nor a record of a log
\* group without events
FullyScored(result) ==
    /\ {"anomaly_score", "severity"} \subseteq DOMAIN result
    /\ "error" \notin DOMAIN result
    /\ "status" \in DOMAIN result => result.status # "insufficient_data"
    /\ "total_events" \in DOMAIN result => result.total_events # 0

\* C13: in a run of either handler with a positive alert threshold, every call of
\* sns.publish is for an item of the batch that was scored in full: never for an
\* item whose record has an 'error' field, for a metric whose record has status
\* 'insufficient_data', or for a log group without events (total_events = 0).
C13_AlertsOnlyForScoredItems ==
    (handler \in {"anomaly-scorer", "log-analyzer"} /\ ANOMALY_THRESHOLD > 0) =>
        \A k \in 1..Len(sns_calls) :
            /\ sns_calls[k].item \in 1..Len(results)
            /\ FullyScored(results[sns_calls[k].item])

\* C13 witness: a run of the anomaly scorer with threshold 0.7 and a topic has
\* ended; of its two metrics one has insufficient data and no alert, the other was
\* scored in full and has one
C13_Witness ==
    /\ handler = "anomaly-scorer" /\ pc = "done"
    /\ ANOMALY_THRESHOLD > 0 /\ SNS_TOPIC_ARN # ""
    /\ Len(results) = 2
    /\ "status" \in DOMAIN results[1] /\ results[1].status = "insufficient_data"
    /\ FullyScored(results[2])
    /\ Len(sns_calls) = 1 /\ sns_calls[1].item = 2

=============================================================================
